---- MODULE Spec2Model ----
(***************************************************************************)
(* A model of frugy's field/record codec (src/frugy/types.py): FixedField, *)
(* StringField and FruArea.  Bytes are naturals 0..255, byte strings are   *)
(* sequences of bytes, text strings are sequences of Unicode code points.  *)
(* A Python call that can raise is an operator returning a record          *)
(* [ok, val, err]: ok = TRUE with the value, or ok = FALSE with the name   *)
(* of the exception.                                                       *)
(***************************************************************************)
EXTENDS Integers, Sequences, FiniteSets, TLC

\* ------------------------------------------------------------------------
\* Results of calls that may raise

Ok(v) == [ok |-> TRUE, val |-> v, err |-> ""]

Raise(e) == [ok |-> FALSE, vafter |-> <<>>, err |-> e]

\* head followed by what the rest of a loop produced, unless the rest raised
Then(head, rest) == IF rest.ok THEN Ok(head \o rest.val) ELSE rest

\* ------------------------------------------------------------------------
\* Byte-string helpers (Python slicing and arithmetic)

Min(a, b) == IF a < b THEN a ELSE b

\* s[:n] for n >= 0
Take(s, n) == SubSeq(s, 1, Min(n, Len(s)))

\* s[n:] for n >= 0
Drop(s, n) == SubSeq(s, Min(n, Len(s)) + 1, Len(s))

\* s[:-n]; Python reads -0 as 0, so s[:-0] is the empty string
DropLast(s, n) == IF n = 0 THEN <<>> ELSE SubSeq(s, 1, Len(s) - n)

RECURSIVE Sum(_)
Sum(s) == IF s = <<>> THEN 0 ELSE Head(s) + Sum(Tail(s))

Zeros(n) == [i \in 1..n |-> 0]

RECURSIVE Reverse(_)
Reverse(s) == IF s = <<>> THEN <<>> ELSE Reverse(Tail(s)) \o <<Head(s)>>

RECURSIVE Pow2(_)
Pow2(n) == IF n = 0 THEN 1 ELSE 2 * Pow2(n - 1)

NegMod(size, alignment) == (alignment - (size % alignment)) % alignment

\* Faulty variant of _sizeAlign: pads by the remainder instead of its complement
_sizeAlign_remainder(size, alignment) ==
    LET numPadBytes == size % alignment
    IN  <<numPadBytes, size + numPadBytes>>

_sizeAlign(size, alignment) ==
    LET numPadBytes == NegMod(size, alignment)
    IN  <<numPadBytes, size + numPadBytes>>

\* ------------------------------------------------------------------------
\* bitstruct: unsigned integers packed into a bit stream

RECURSIVE IntToBits(_, _)
IntToBits(v, w) == IF w = 0 THEN <<>> ELSE IntToBits(v \div 2, w - 1) \o <<v % 2>>

RECURSIVE BitsToInt(_)
BitsToInt(b) ==
    IF b = <<>> THEN 0 ELSE 2 * BitsToInt(SubSeq(b, 1, Len(b) - 1)) + b[Len(b)]

RECURSIVE BitsToBytes(_)
BitsToBytes(b) ==
    IF b = <<>> THEN <<>>
    ELSE <<BitsToInt(SubSeq(b, 1, 8))>> \o BitsToBytes(SubSeq(b, 9, Len(b)))

RECURSIVE BytesToBits(_)
BytesToBits(d) ==
    IF d = <<>> THEN <<>> ELSE IntToBits(Head(d), 8) \o BytesToBits(Tail(d))

\* pack_value with byte order '<': the bytes of one value are emitted least
\* significant first
RECURSIVE PackSwap(_, _, _)
PackSwap(bits, vb, off) ==
    IF off > 0
    THEN PackSwap(bits \o SubSeq(vb, off + 1, Len(vb)), SubSeq(vb, 1, off), off - 8)
    ELSE bits \o vb

PackValue(bits, vb, lsbFirst) ==
    IF lsbFirst THEN PackSwap(bits, vb, Len(vb) - (8 - (Len(bits) % 8)))
    ELSE bits \o vb

RECURSIVE PackBits(_, _, _, _)
PackBits(widths, values, lsbFirst, bits) ==
    IF widths = <<>> THEN bits
    ELSE PackBits(Tail(widths), Tail(values), lsbFirst,
                  PackValue(bits, IntToBits(Head(values), Head(widths)), lsbFirst))

PadToByte(bits) == bits \o Zeros(NegMod(Len(bits), 8))

\* bitstruct.pack(fmt, *values): one value per group, each within its width
Pack(widths, values, lsbFirst) ==
    IF Len(values) # Len(widths) THEN Raise("bitstruct.Error")
    ELSE IF \E i \in 1..Len(widths) : values[i] < 0 \/ values[i] >= Pow2(widths[i])
    THEN Raise("bitstruct.Error")
    ELSE Ok(BitsToBytes(PadToByte(PackBits(widths, values, lsbFirst, <<>>))))

RECURSIVE UnpackSwap(_, _, _)
UnpackSwap(vb, tmp, off) ==
    IF off > 0
    THEN UnpackSwap(vb \o SubSeq(tmp, off + 1, Min(off + 8, Len(tmp))),
                    SubSeq(tmp, 1, off), off - 8)
    ELSE vb \o tmp

UnpackValue(bits, offset, size, lsbFirst) ==
    LET tmp == SubSeq(bits, offset + 1, offset + size)
    IN  IF lsbFirst
        THEN BitsToInt(UnpackSwap(<<>>, tmp, size - ((offset + size) % 8)))
        ELSE BitsToInt(tmp)

RECURSIVE UnpackBits(_, _, _, _)
UnpackBits(widths, bits, offset, lsbFirst) ==
    IF widths = <<>> THEN <<>>
    ELSE <<UnpackValue(bits, offset, Head(widths), lsbFirst)>>
         \o UnpackBits(Tail(widths), bits, offset + Head(widths), lsbFirst)

\* bitstruct.unpack(fmt, data): raises when data holds fewer bits than fmt
Unpack(widths, data, lsbFirst) ==
    IF Sum(widths) > 8 * Len(data) THEN Raise("bitstruct.Error")
    ELSE Ok(UnpackBits(widths, BytesToBits(data), 0, lsbFirst))

\* ------------------------------------------------------------------------
\* Text: str.encode('utf-8'), bytes.decode('utf-8'), str.upper()

IsSurrogate(c) == c >= 55296 /\ c <= 57343

Utf8EncodeChar(c) ==
    IF c < 128 THEN <<c>>
    ELSE IF c < 2048 THEN <<192 + (c \div 64), 128 + (c % 64)>>
    ELSE IF c < 65536
    THEN <<224 + (c \div 4096), 128 + ((c \div 64) % 64), 128 + (c % 64)>>
    ELSE <<240 + (c \div 262144), 128 + ((c \div 4096) % 64),
           128 + ((c \div 64) % 64), 128 + (c % 64)>>

RECURSIVE Utf8Bytes(_)
Utf8Bytes(val) ==
    IF val = <<>> THEN <<>> ELSE Utf8EncodeChar(Head(val)) \o Utf8Bytes(Tail(val))

Utf8Encode(val) ==
    IF \E i \in 1..Len(val) : IsSurrogate(val[i]) THEN Raise("UnicodeEncodeError")
    ELSE Ok(Utf8Bytes(val))

IsCont(b) == b >= 128 /\ b <= 191

\* number of bytes of the well-formed sequence at the head of d, 0 if none
\* (the strict decoder: no overlong forms, no surrogates, nothing above
\* U+10FFFF)
Utf8SeqLen(d) ==
    LET b0 == d[1]
        n  == Len(d)
    IN  IF b0 < 128 THEN 1
        ELSE IF b0 >= 194 /\ b0 <= 223
        THEN IF n >= 2 /\ IsCont(d[2]) THEN 2 ELSE 0
        ELSE IF b0 >= 224 /\ b0 <= 239
        THEN IF n >= 3 /\ IsCont(d[2]) /\ IsCont(d[3])
                /\ (b0 = 224 => d[2] >= 160) /\ (b0 = 237 => d[2] <= 159)
             THEN 3 ELSE 0
        ELSE IF b0 >= 240 /\ b0 <= 244
        THEN IF n >= 4 /\ IsCont(d[2]) /\ IsCont(d[3]) /\ IsCont(d[4])
                /\ (b0 = 240 => d[2] >= 144) /\ (b0 = 244 => d[2] <= 143)
             THEN 4 ELSE 0
        ELSE 0

Utf8CodePoint(d, n) ==
    IF n = 1 THEN d[1]
    ELSE IF n = 2 THEN (d[1] - 192) * 64 + (d[2] - 128)
    ELSE IF n = 3 THEN (d[1] - 224) * 4096 + (d[2] - 128) * 64 + (d[3] - 128)
    ELSE (d[1] - 240) * 262144 + (d[2] - 128) * 4096 + (d[3] - 128) * 64
         + (d[4] - 128)

RECURSIVE Utf8Decode(_)
Utf8Decode(d) ==
    LET Decoded(n) == IF n = 0 THEN Raise("UnicodeDecodeError")
                      ELSE Then(<<Utf8CodePoint(d, n)>>, Utf8Decode(Drop(d, n)))
    IN  IF d = <<>> THEN Ok(<<>>) ELSE Decoded(Utf8SeqLen(d))

\* str.upper() of one character: exact below U+0100 and for the two
\* characters above it whose upper case is ASCII; every other character
\* keeps a code point of U+0100 or more.
UpperChar(c) ==
    IF c >= 97 /\ c <= 122 THEN <<c - 32>>
    ELSE IF c = 181 THEN <<924>>
    ELSE IF c = 223 THEN <<83, 83>>
    ELSE IF c >= 224 /\ c <= 254 /\ c # 247 THEN <<c - 32>>
    ELSE IF c = 255 THEN <<376>>
    ELSE IF c = 305 THEN <<73>>
    ELSE IF c = 383 THEN <<83>>
    ELSE <<c>>

RECURSIVE Upper(_)
Upper(val) == IF val = <<>> THEN <<>> ELSE UpperChar(Head(val)) \o Upper(Tail(val))

\* _grouper(n, iterable, padvalue): chunks of n, the last one padded
RECURSIVE _grouper(_, _, _)
_grouper(n, s, padvalue) ==
    IF s = <<>> THEN <<>>
    ELSE IF Len(s) < n
    THEN <<s \o [i \in 1..(n - Len(s)) |-> padvalue]>>
    ELSE <<SubSeq(s, 1, n)>> \o _grouper(n, Drop(s, n), padvalue)

\* ------------------------------------------------------------------------
\* StringFmt and StringField

BIN == 0

BCD_PLUS == 1

ASCII_6BIT == 2

ASCII_8BIT == 3

Space == 32

\* bcdplus_lookup: '0'..'9' -> 0..9, ' ' -> 10, '-' -> 11, '.' -> 12
InBcdLookup(c) == (c >= 48 /\ c <= 57) \/ c = 32 \/ c = 45 \/ c = 46

bcdplus_lookup(c) ==
    IF c >= 48 /\ c <= 57 THEN c - 48
    ELSE IF c = 32 THEN 10 ELSE IF c = 45 THEN 11 ELSE 12

\* Faulty variant of bcdplus_lookup_rev: every nibble read as an offset from '0'
bcdplus_lookup_rev_offset(x) == x + 48

bcdplus_lookup_rev(x) ==
    IF x <= 9 THEN x + 48
    ELSE IF x = 10 THEN 32 ELSE IF x = 11 THEN 45 ELSE 46

size_plain(val) == Len(val)

size_6bit(val) == (_sizeAlign(Len(val), 4)[2] \div 4) * 3

size_bcd_plus(val) == _sizeAlign(Len(val), 2)[2] \div 2

\* StringField.size
StringSize(f) ==
    1 + (IF f.format = BCD_PLUS THEN size_bcd_plus(f.value)
         ELSE IF f.format = ASCII_6BIT THEN size_6bit(f.value)
         ELSE size_plain(f.value))

ser_plain(val) == Utf8Encode(val)

RECURSIVE Ser6bitChunks(_)
Ser6bitChunks(chunks) ==
    LET Codes(chunk) == [i \in 1..4 |-> chunk[i] - 32]
        Emit(tmp) == IF ~tmp.ok THEN tmp
                     ELSE Then(Reverse(tmp.val), Ser6bitChunks(Tail(chunks)))
    IN  IF chunks = <<>> THEN Ok(<<>>)
        ELSE Emit(Pack(<<6, 6, 6, 6>>, Reverse(Codes(Head(chunks))), FALSE))

ser_6bit(val) == Ser6bitChunks(_grouper(4, Upper(val), Space))

RECURSIVE SerBcdChunks(_)
SerBcdChunks(chunks) ==
    LET Emit(chunk) ==
            IF ~InBcdLookup(chunk[1]) \/ ~InBcdLookup(chunk[2]) THEN Raise("KeyError")
            ELSE Then(Pack(<<4, 4>>, <<bcdplus_lookup(chunk[1]),
                                       bcdplus_lookup(chunk[2])>>, FALSE).val,
                      SerBcdChunks(Tail(chunks)))
    IN  IF chunks = <<>> THEN Ok(<<>>) ELSE Emit(Head(chunks))

ser_bcd_plus(val) == SerBcdChunks(_grouper(2, val, Space))

\* Faulty variant of ser_type_length: the selector is always ASCII_8BIT
ser_type_length_8bit(format, val) == Pack(<<2, 6>>, <<ASCII_8BIT, Len(val)>>, FALSE)

ser_type_length(format, val) == Pack(<<2, 6>>, <<format, Len(val)>>, FALSE)

\* StringField.serialize
StringSerialize(f) ==
    LET Join(hdr, result) == IF hdr.ok THEN Ok(hdr.val \o result.val) ELSE hdr
        Finish(result) ==
            IF ~result.ok THEN result
            ELSE Join(ser_type_length(f.format, result.val), result)
    IN  Finish(IF f.format = BCD_PLUS THEN ser_bcd_plus(f.value)
               ELSE IF f.format = ASCII_6BIT THEN ser_6bit(f.value)
               ELSE ser_plain(f.value))

deser_plain(val) == Utf8Decode(val)

RECURSIVE deser_6bit(_)
deser_6bit(val) ==
    LET Chars(tmp) == [i \in 1..4 |-> tmp[5 - i] + 32]
    IN  IF val = <<>> THEN Ok(<<>>)
        ELSE IF Len(val) < 3 THEN Raise("TypeError")
        ELSE Then(Chars(Unpack(<<6, 6, 6, 6>>, Reverse(SubSeq(val, 1, 3)), FALSE).val),
                  deser_6bit(Drop(val, 3)))

RECURSIVE deser_bcd_plus(_)
deser_bcd_plus(val) ==
    LET Chars(tmp) ==
            IF tmp[1] > 12 \/ tmp[2] > 12 THEN Raise("KeyError")
            ELSE Then(<<bcdplus_lookup_rev(tmp[1]), bcdplus_lookup_rev(tmp[2])>>,
                      deser_bcd_plus(Tail(val)))
    IN  IF val = <<>> THEN Ok(<<>>)
        ELSE Chars(Unpack(<<4, 4>>, <<Head(val)>>, FALSE).val)

\* StringField.deserialize: val is the field after the call (the format is
\* assigned before the payload is decoded, so it changes even when decoding
\* raises), rem the remainder
StringDeserialize(f, input) ==
    LET Store(fmt_int, payload_len, dec) ==
            IF ~dec.ok
            THEN [ok |-> FALSE, err |-> dec.err,
                  field |-> [f EXCEPT !.format = fmt_int], rem |-> <<>>]
            ELSE [ok |-> TRUE, err |-> "",
                  field |-> [f EXCEPT !.format = fmt_int, !.value = dec.val],
                  rem |-> Drop(Drop(input, 1), payload_len)]
        Decode(fmt_int, payload_len, payload) ==
            Store(fmt_int, payload_len,
                  IF fmt_int = BCD_PLUS THEN deser_bcd_plus(payload)
                  ELSE IF fmt_int = ASCII_6BIT THEN deser_6bit(payload)
                  ELSE deser_plain(payload))
        Header(hdr) ==
            IF ~hdr.ok THEN [ok |-> FALSE, err |-> hdr.err, field |-> f, rem |-> <<>>]
            ELSE Decode(hdr.val[1], hdr.val[2], Take(Drop(input, 1), hdr.val[2]))
    IN  Header(Unpack(<<2, 6>>, Take(input, 1), FALSE))

\* ------------------------------------------------------------------------
\* FixedField: format is the list of bit widths of 'u' groups; value is
\* [tup, v]: a Python tuple (tup = TRUE) or a single integer <<n>>

FixedSize(f) ==
    LET numBits == Sum(f.format)
    IN  IF numBits % 8 # 0 THEN Raise("RuntimeError") ELSE Ok(numBits \div 8)

FixedSerialize(f) == Pack(f.format, f.value.v, TRUE)

FixedDeserialize(f, input) ==
    LET Store(n, result) ==
            IF ~result.ok
            THEN [ok |-> FALSE, err |-> result.err, field |-> f, rem |-> <<>>]
            ELSE [ok |-> TRUE, err |-> "",
                  field |-> [f EXCEPT !.value =
                                [tup |-> Len(result.val) > 1, v |-> result.val]],
                  rem |-> Drop(input, n)]
        Sized(n) ==
            IF ~n.ok THEN [ok |-> FALSE, err |-> n.err, field |-> f, rem |-> <<>>]
            ELSE Store(n.val, Unpack(f.format, Take(input, n.val), TRUE))
    IN  Sized(FixedSize(f))

FieldSize(f) == IF f.kind = "fixed" THEN FixedSize(f) ELSE Ok(StringSize(f))

FieldSerialize(f) == IF f.kind = "fixed" THEN FixedSerialize(f) ELSE StringSerialize(f)

FieldDeserialize(f, input) ==
    IF f.kind = "fixed" THEN FixedDeserialize(f, input) ELSE StringDeserialize(f, input)

\* ------------------------------------------------------------------------
\* FruArea.  A schema is a sequence of [name, field] prototypes; heap maps an
\* instance id to the Field object; an area is [fv, dict]: its own
\* _format_version FixedField and its _dict, the sequence of instance ids in
\* schema order.

_format_version_default == 1

Names(sch) == [i \in 1..Len(sch) |-> sch[i].name]

\* position of key in the _dict, 0 when absent
IndexOf(names, key) ==
    IF \E i \in 1..Len(names) : names[i] = key
    THEN CHOOSE i \in 1..Len(names) : names[i] = key
    ELSE 0

\* FruArea.__init__ before update(initdict): OrderedDict(self._schema) keeps
\* the Field instances of the class-level schema, whose ids are 1..Len(sch)
NewArea(sch) ==
    [fv   |-> [kind |-> "fixed", format |-> <<4, 4>>,
               value |-> [tup |-> TRUE, v |-> <<0, _format_version_default>>]],
     dict |-> [i \in 1..Len(sch) |-> i]]

\* What a mutating call leaves behind
St(ok, err, h, a) == [ok |-> ok, err |-> err, heap |-> h, area |-> a]

_get(names, h, a, key) ==
    LET i == IndexOf(names, key)
    IN  IF i = 0 THEN Raise("KeyError") ELSE Ok(h[a.dict[i]].value)

_set(names, h, a, key, value) ==
    LET i == IndexOf(names, key)
    IN  IF i = 0 THEN St(FALSE, "KeyError", h, a)
        ELSE St(TRUE, "", [h EXCEPT ![a.dict[i]].value = value], a)

_set_area_length(names, h, a, val) ==
    IF val.tup THEN St(FALSE, "TypeError", h, a)
    ELSE IF (val.v[1] % 8) # 0 THEN St(FALSE, "ValueError", h, a)
    ELSE _set(names, h, a, "area_length", [tup |-> FALSE, v |-> <<val.v[1] \div 8>>])

\* Faulty variant of _get_area_length: the stored units, not multiplied by 8
_get_area_length_units(names, h, a) == _get(names, h, a, "area_length")

_get_area_length(names, h, a) ==
    LET Times8(g) == IF g.ok THEN Ok([tup |-> FALSE, v |-> <<g.val.v[1] * 8>>]) ELSE g
    IN  Times8(_get(names, h, a, "area_length"))

_set_format_version(h, a, val) ==
    St(TRUE, "", h, [a EXCEPT !.fv.value = [tup |-> TRUE, v |-> <<0>> \o val.v]])

_get_format_version(a) == Ok([tup |-> FALSE, v |-> <<a.fv.value.v[2]>>])

\* FruArea.__getitem__
GetItem(names, h, a, key) ==
    IF key = "area_length" THEN _get_area_length(names, h, a)
    ELSE IF key = "format_version" THEN _get_format_version(a)
    ELSE _get(names, h, a, key)

\* FruArea.__setitem__
SetItem(names, h, a, key, value) ==
    IF key = "area_length" THEN _set_area_length(names, h, a, value)
    ELSE IF key = "format_version" THEN _set_format_version(h, a, value)
    ELSE _set(names, h, a, key, value)

\* FruArea.update: src is a sequence of <<key, value>> items, applied in
\* order up to the first one that raises
RECURSIVE update(_, _, _, _)
update(names, h, a, src) ==
    LET Rest(s) == IF s.ok THEN update(names, s.heap, s.area, Tail(src)) ELSE s
    IN  IF src = <<>> THEN St(TRUE, "", h, a)
        ELSE Rest(SetItem(names, h, a, Head(src)[1], Head(src)[2]))

\* FruArea.to_dict, as the sequence of values in schema order
to_dict(names, h, a) == [i \in 1..Len(names) |-> GetItem(names, h, a, names[i]).val]

_prologue(a) == FixedSerialize(a.fv)

\* Faulty variant of _epilogue: the checksum byte is the sum, not its negation
_epilogue_sum(payload) ==
    LET numPadBytes == _sizeAlign(Len(payload) + 1, 8)[1]
        cksum       == Sum(payload) % 256
    IN  Zeros(numPadBytes) \o <<cksum>>

_epilogue(payload) ==
    LET numPadBytes == _sizeAlign(Len(payload) + 1, 8)[1]
        cksum       == (256 - (Sum(payload) % 256)) % 256
    IN  Zeros(numPadBytes) \o <<cksum>>

RECURSIVE SumSizes(_, _)
SumSizes(h, ids) ==
    LET Add(n, rest) == IF rest.ok THEN Ok(n.val + rest.val) ELSE rest
        One(n) == IF ~n.ok THEN n ELSE Add(n, SumSizes(h, Tail(ids)))
    IN  IF ids = <<>> THEN Ok(0) ELSE One(FieldSize(h[Head(ids)]))

size_payload(h, a) ==
    LET Plus1(n) == IF n.ok THEN Ok(n.val + 1) ELSE n
    IN  Plus1(SumSizes(h, a.dict))

size_total(h, a) ==
    LET Align(n) == IF n.ok THEN Ok(_sizeAlign(n.val + 1, 8)[2]) ELSE n
    IN  Align(size_payload(h, a))

\* b''.join([v.serialize() for v in self._dict.values()])
RECURSIVE JoinFields(_, _)
JoinFields(h, ids) ==
    LET One(b) == IF ~b.ok THEN b ELSE Then(b.val, JoinFields(h, Tail(ids)))
    IN  IF ids = <<>> THEN Ok(<<>>) ELSE One(FieldSerialize(h[Head(ids)]))

\* FruArea.serialize: [ok, err, val, heap]; the heap changes (area_length)
\* even when a later step raises
Ser(ok, err, val, h) == [ok |-> ok, err |-> err, val |-> val, heap |-> h]

serialize(names, h, a) ==
    LET Framed(p, g) == Ser(TRUE, "", p \o _epilogue(p), g)
        Joined(payload, body, g) ==
            IF ~body.ok THEN Ser(FALSE, body.err, <<>>, g)
            ELSE Framed(payload \o body.val, g)
        Fields(payload, upd) ==
            IF ~upd.ok THEN Ser(FALSE, upd.err, <<>>, upd.heap)
            ELSE Joined(payload, JoinFields(upd.heap, a.dict), upd.heap)
        AreaLength(total) ==
            IF ~total.ok THEN St(FALSE, total.err, h, a)
            ELSE SetItem(names, h, a, "area_length", [tup |-> FALSE, v |-> <<total.val>>])
        Prologue(payload) ==
            IF ~payload.ok THEN Ser(FALSE, payload.err, <<>>, h)
            ELSE Fields(payload.val,
                        IF IndexOf(names, "area_length") = 0 THEN St(TRUE, "", h, a)
                        ELSE AreaLength(size_total(h, a)))
    IN  Prologue(_prologue(a))

\* for v in self._dict.values(): remainder = v.deserialize(remainder)
RECURSIVE DeserFields(_, _, _)
DeserFields(h, ids, remainder) ==
    LET One(r, g) ==
            IF ~r.ok THEN [ok |-> FALSE, err |-> r.err, heap |-> g, rem |-> <<>>]
            ELSE DeserFields(g, Tail(ids), r.rem)
        Stored(r) == One(r, [h EXCEPT ![Head(ids)] = r.field])
    IN  IF ids = <<>> THEN [ok |-> TRUE, err |-> "", heap |-> h, rem |-> remainder]
        ELSE Stored(FieldDeserialize(h[Head(ids)], remainder))

\* Faulty variant of the epilogue test: compares only the bytes both sides have
EpilogueDiffersZipped(ep, vfy) ==
    \E i \in 1..Min(Len(ep), Len(vfy)) : ep[i] # vfy[i]

\* ep != vfy
EpilogueDiffers(ep, vfy) == ep # vfy

\* FruArea.deserialize: [ok, err, val, heap, area]; val is the remainder
Des(ok, err, val, h, a) == [ok |-> ok, err |-> err, val |-> val, heap |-> h, area |-> a]

deserialize(h, a, input) ==
    LET Verify(ep, remainder, g, a1) ==
            IF EpilogueDiffers(ep, Take(remainder, Len(ep)))
            THEN Des(FALSE, "RuntimeError", <<>>, g, a1)
            ELSE Des(TRUE, "", Drop(remainder, Len(ep)), g, a1)
        Fields(fs, a1) ==
            IF ~fs.ok THEN Des(FALSE, fs.err, <<>>, fs.heap, a1)
            ELSE Verify(_epilogue(DropLast(input, Len(fs.rem))), fs.rem, fs.heap, a1)
        Prologue(fv) ==
            IF ~fv.ok THEN Des(FALSE, fv.err, <<>>, h, a)
            ELSE Fields(DeserFields(h, a.dict, fv.rem), [a EXCEPT !.fv = fv.field])
    IN  Prologue(FixedDeserialize(a.fv, input))

\* ------------------------------------------------------------------------
\* The bounded environment: schemas, callers' values and input buffers

\* number of FruArea objects of the class
NumAreas == 2

\* longest string a caller sets
MaxStrLen == 2

\* longest byte string that follows a serialized area in a buffer
MaxTail == 1

\* how many trailing bytes of a serialized area a caller cuts off or alters
MaxCut == 4

\* how many of the trailing bytes a caller alters, one at a time
MaxAlter == 2

Areas == 1..NumAreas

Fixed(widths, tup, v) ==
    [kind |-> "fixed", format |-> widths, value |-> [tup |-> tup, v |-> v]]

String(v, fmt) == [kind |-> "string", format |-> fmt, value |-> v]

Entry(name, field) == [name |-> name, field |-> field]

Schemas ==
    << <<>>,
      << Entry("area_length", Fixed(<<8>>, FALSE, <<0>>)),
         Entry("id", Fixed(<<16>>, FALSE, <<0>>)),
         Entry("name", String(<<>>, ASCII_8BIT)) >>,
      << Entry("flags", Fixed(<<4, 4>>, TRUE, <<0, 0>>)),
         Entry("serial", String(<<>>, BCD_PLUS)) >>,
      << Entry("part", String(<<>>, ASCII_6BIT)) >> >>

Scalar(n) == [tup |-> FALSE, v |-> <<n>>]

ListOf(v) == [tup |-> TRUE, v |-> v]

\* "12-" and "aé"
BaseStrings == { <<49, 50, 45>>, <<97, 233>> }

StrVals == { Take(b, n) : b \in BaseStrings, n \in 0..MaxStrLen }

\* the values a caller passes for a key: in range and out of range, aligned
\* and misaligned, in and outside the BCD PLUS / 6-bit character sets
ValsFor(sch, key) ==
    IF key = "area_length" THEN { Scalar(16), Scalar(10) }
    ELSE IF key = "format_version" THEN { Scalar(2), Scalar(16) }
    ELSE IF key = "bogus" THEN { Scalar(0) }
    ELSE LET f == sch[IndexOf(Names(sch), key)].field
         IN  IF f.kind = "string" THEN StrVals
             ELSE IF Len(f.format) = 1 THEN { Scalar(258), Scalar(65536) }
             ELSE { ListOf(<<3, 4>>), ListOf(<<1, 16>>) }

Keys(sch) == { sch[i].name : i \in 1..Len(sch) } \cup { "format_version", "bogus" }

Items(sch) == UNION { { <<k, v>> : v \in ValsFor(sch, k) } : k \in Keys(sch) }

\* mappings for update(): the format version, then one more item
Mappings(sch) == { << <<"format_version", Scalar(2)>>, i >> : i \in Items(sch) }

\* Buffers written by hand.  Frame appends padding and checksum as the wire
\* format of the specification lays them out.
Frame(p) == p \o Zeros(NegMod(Len(p) + 1, 8)) \o <<(256 - (Sum(p) % 256)) % 256>>

PrologueVecs == { <<1>>, <<33>> }

FixedVecs(f) == IF Sum(f.format) = 8 THEN { <<18>> } ELSE { <<2, 1>> }

\* BCD PLUS "12"; BCD PLUS with nibble 13; ASCII_8BIT "é"; ASCII_8BIT with a
\* stray 0xFF; ASCII_6BIT "IPMI"; ASCII_6BIT of two bytes; BIN "A"; a header
\* announcing three bytes before one
StringVecs ==
    { <<65, 18>>, <<65, 208>>, <<194, 195, 169>>, <<193, 255>>,
      <<131, 41, 220, 166>>, <<130, 41, 220>>, <<1, 65>>, <<195, 65>> }

RECURSIVE FieldVecs(_)
FieldVecs(sch) ==
    IF sch = <<>> THEN { <<>> }
    ELSE { h \o t : h \in (IF Head(sch).field.kind = "fixed"
                           THEN FixedVecs(Head(sch).field) ELSE StringVecs),
                    t \in FieldVecs(Tail(sch)) }

Crafted(sch) == { Frame(p \o f) : p \in PrologueVecs, f \in FieldVecs(sch) }

Tails == UNION { [1..n -> {0, 255}] : n \in 0..MaxTail }

\* the last k bytes cut off
Cut(b, k) == SubSeq(b, 1, Len(b) - k)

\* one of the last bytes overwritten with 0xFF (with 0 where it was 0xFF)
Alter(b, k) == [b EXCEPT ![Len(b) + 1 - k] = IF @ = 255 THEN 0 ELSE 255]

Damaged(b) ==
    { Cut(b, k) : k \in 1..Min(MaxCut, Len(b)) }
    \cup { Alter(b, k) : k \in 1..Min(MaxAlter, Len(b)) }

\* ------------------------------------------------------------------------
\* State

\* the sets above, computed once per class
ItemsOf == [k \in 1..Len(Schemas) |-> Items(Schemas[k])]

MappingsOf == [k \in 1..Len(Schemas) |-> Mappings(Schemas[k])]

CraftedOf == [k \in 1..Len(Schemas) |-> Crafted(Schemas[k])]

NamesOf == [k \in 1..Len(Schemas) |-> Names(Schemas[k])]

VARIABLES
    cls,      \* the FruArea subclass in use, an index into Schemas
    heap,     \* instance id -> Field object; ids 1..Len(schema) are the
              \* prototypes of the schema
    live,     \* the areas of the class that have been constructed
    areas,    \* area -> [fv, dict]
    last      \* the last call: what it was given and what it returned

vars == <<cls, heap, live, areas, last>>

\* the class attribute _schema, never assigned after the class body
_schema == Schemas[cls]

names == NamesOf[cls]

\* last: name of the call, the area it was made on, whether it returned (ok)
\* or raised (err), its input buffer (inp) and its result (out: the bytes of
\* serialize, the remainder of deserialize).  For serialize, d is to_dict()
\* taken just before and, when the call directly follows an accepted
\* deserialize on the same area (follows), prefix is the part of that buffer
\* the deserialize consumed.  For a deserialize of the output of the
\* serialize just before it (rt), tail is what the caller appended, src the
\* area that serialized, d that area's to_dict() before serializing and
\* after the to_dict() right after it.
Call(name, a, ok, err) ==
    [name |-> name, area |-> a, ok |-> ok, err |-> err, inp |-> <<>>, out |-> <<>>,
     d |-> <<>>, after |-> <<>>, follows |-> FALSE, prefix |-> <<>>, rt |-> FALSE,
     tail |-> <<>>, src |-> 0]

\* FruArea() for every area in as, none given an initdict
Constructed(as) ==
    /\ cls \in 1..Len(Schemas)
    /\ heap = [i \in 1..Len(_schema) |-> _schema[i].field]
    /\ live = as
    /\ areas = [a \in Areas |-> NewArea(_schema)]
    /\ last = Call("init", 0, TRUE, "")

Init == Constructed({1})

\* area[key] = value
Set(a, key, value) ==
    \E u \in {SetItem(names, heap, areas[a], key, value)} :
        /\ heap' = u.heap
        /\ areas' = [areas EXCEPT ![a] = u.area]
        /\ last' = Call("set", a, u.ok, u.err)
        /\ UNCHANGED <<cls, live>>

\* area.update(src)
Update(a, src) ==
    \E u \in {update(names, heap, areas[a], src)} :
        /\ heap' = u.heap
        /\ areas' = [areas EXCEPT ![a] = u.area]
        /\ last' = Call("update", a, u.ok, u.err)
        /\ UNCHANGED <<cls, live>>

\* area.serialize()
Serialize(a) ==
    \E s \in {serialize(names, heap, areas[a])},
       f \in {last.name = "deserialize" /\ last.ok /\ last.area = a} :
        /\ heap' = s.heap
        /\ last' = [Call("serialize", a, s.ok, s.err) EXCEPT
                      !.out = s.val,
                      !.d = IF s.ok THEN to_dict(names, heap, areas[a]) ELSE <<>>,
                      !.after = IF s.ok THEN to_dict(names, s.heap, areas[a]) ELSE <<>>,
                      !.follows = f,
                      !.prefix = IF f THEN Cut(last.inp, Len(last.out)) ELSE <<>>]
        /\ UNCHANGED <<cls, live, areas>>

DeserializeStep(a, input, rt, tail) ==
    \E x \in {deserialize(heap, areas[a], input)} :
        /\ heap' = x.heap
        /\ areas' = [areas EXCEPT ![a] = x.area]
        /\ last' = [Call("deserialize", a, x.ok, x.err) EXCEPT
                      !.inp = input, !.out = x.val, !.rt = rt, !.tail = tail,
                      !.d = IF rt THEN last.d ELSE <<>>,
                      !.after = IF rt THEN last.after ELSE <<>>,
                      !.src = IF rt THEN last.area ELSE 0]
        /\ UNCHANGED <<cls, live>>

\* area.deserialize(b + tail), b the bytes the last call, a serialize, returned
DeserializeSerialized(a, tail) ==
    /\ last.name = "serialize" /\ last.ok
    /\ DeserializeStep(a, last.out \o tail, TRUE, tail)

\* area.deserialize of those bytes cut short or with one byte altered
DeserializeDamaged(a, b) ==
    /\ last.name = "serialize" /\ last.ok
    /\ DeserializeStep(a, b, FALSE, <<>>)

\* area.deserialize of a buffer from elsewhere
DeserializeCrafted(a, b) == DeserializeStep(a, b, FALSE, <<>>)

Next ==
    \/ \E a \in live, i \in ItemsOf[cls] : Set(a, i[1], i[2])
    \/ \E a \in live, m \in MappingsOf[cls] : Update(a, m)
    \/ \E a \in live : Serialize(a)
    \/ \E a \in live, t \in Tails : DeserializeSerialized(a, t)
    \/ \E a \in live, b \in Damaged(last.out) : DeserializeDamaged(a, b)
    \/ \E a \in live, b \in CraftedOf[cls] : DeserializeCrafted(a, b)

Spec == Init /\ [][Next]_vars

\* Two areas of one class
InitShared ==
    /\ Constructed(Areas)
    /\ Len(_schema) = 1

SpecShared == InitShared /\ [][Next]_vars

\* ------------------------------------------------------------------------
\* Properties

Serialized == last.name = "serialize" /\ last.ok

Deserialized == last.name = "deserialize"

\* the area of the last call, and what it reports now
Me == areas[last.area]

NowDict == to_dict(names, heap, Me)

NowTotal == size_total(heap, Me).val

HasAreaLength == IndexOf(names, "area_length") # 0

\* the bytes of the schema fields as they serialize now
FieldBytes == JoinFields(heap, Me.dict)

\* the fields of input, walked on their own: how many bytes prologue and
\* fields take, and whether they decode
Walk(input) ==
    LET Fields(fv) ==
            IF ~fv.ok THEN [ok |-> FALSE, rem |-> <<>>]
            ELSE [ok  |-> DeserFields(heap, Me.dict, fv.rem).ok,
                  rem |-> DeserFields(heap, Me.dict, fv.rem).rem]
    IN  Fields(FixedDeserialize(Me.fv, input))

Consumed(input) == SubSeq(input, 1, Len(input) - Len(Walk(input).rem))

Following(input) == SubSeq(input, Len(input) - Len(Walk(input).rem) + 1, Len(input))

\* s padded with spaces to a multiple of n characters
PadTo(s, n) == s \o [i \in 1..NegMod(Len(s), n) |-> Space]

\* t is s followed by spaces only
PaddedFrom(t, s) ==
    /\ Len(t) >= Len(s)
    /\ SubSeq(t, 1, Len(s)) = s
    /\ \A i \in (Len(s) + 1)..Len(t) : t[i] = Space

\* C1: whenever serialize() returns, the bytes it returns sum to 0 modulo
\* 256, the last byte being the two's complement of the sum of all bytes
\* before it, padding included.
ChecksumInvariant ==
    Serialized =>
        /\ Sum(last.out) % 256 = 0
        /\ last.out[Len(last.out)] = (256 - (Sum(Cut(last.out, 1)) % 256)) % 256

\* serialize() has returned two blocks of a record whose fields came from
\* an accepted buffer
ChecksumWitness ==
    /\ Serialized /\ last.follows
    /\ Len(last.out) = 16
    /\ last.out[16] # 0

\* C2: whenever serialize() returns, the length of its bytes is a multiple
\* of 8: the prologue and the fields, then at most seven zero bytes, then
\* one checksum byte.
AlignmentInvariant ==
    Serialized =>
        LET n == 1 + Len(FieldBytes.val)
        IN  /\ Len(last.out) % 8 = 0
            /\ Len(last.out) - n \in 1..8
            /\ SubSeq(last.out, 2, n) = FieldBytes.val
            /\ \A i \in (n + 1)..(Len(last.out) - 1) : last.out[i] = 0

\* serialize() has returned a record with a non-empty string and padding
AlignmentWitness ==
    /\ Serialized
    /\ \E i \in 1..Len(heap) : heap[i].kind = "string" /\ Len(heap[i].value) > 0
    /\ Len(last.out) - (1 + Len(FieldBytes.val)) > 1

\* an area has deserialized, with nothing appended, what it itself
\* serialized in the call before
RoundTrip == Deserialized /\ last.rt /\ last.tail = <<>> /\ last.src = last.area

\* C3 as claimed: after d = to_dict(), b = serialize(), deserialize(b), the
\* call succeeded and to_dict() equals d, except that BCD_PLUS / ASCII_6BIT
\* strings may carry trailing pad spaces.
ValueRoundTripClaimed ==
    RoundTrip =>
        /\ last.ok
        /\ \A i \in 1..Len(names) :
              IF heap[Me.dict[i]].kind = "string"
                 /\ heap[Me.dict[i]].format \in {BCD_PLUS, ASCII_6BIT}
              THEN PaddedFrom(NowDict[i], last.d[i])
              ELSE NowDict[i] = last.d[i]

\* what entry i of to_dict() is after the round trip
RoundTripEntry(i) ==
    LET f == heap[Me.dict[i]]
    IN  IF names[i] = "area_length" THEN last.after[i]
        ELSE IF f.kind = "string" /\ f.format = BCD_PLUS THEN PadTo(last.d[i], 2)
        ELSE IF f.kind = "string" /\ f.format = ASCII_6BIT
        THEN PadTo(Upper(last.d[i]), 4)
        ELSE last.d[i]

\* C3 as amended: the call succeeds and to_dict() equals d, except that a
\* BCD_PLUS string is padded with a space to an even length, an ASCII_6BIT
\* string is upper-cased and padded with spaces to a multiple of 4, and
\* area_length is the value serialize() stored, not the one in d.
ValueRoundTrip ==
    RoundTrip =>
        /\ last.ok
        /\ \A i \in 1..Len(names) : NowDict[i] = RoundTripEntry(i)

\* a round trip that changed an entry of to_dict()
ValueRoundTripWitness == RoundTrip /\ last.ok /\ NowDict # last.d

\* C4: every field that serializes does so into size() bytes, and so
\* serialize() of the record returns size_total() bytes.
SizeConsistency ==
    /\ \A i \in 1..Len(heap) :
          FieldSerialize(heap[i]).ok =>
              Len(FieldSerialize(heap[i]).val) = FieldSize(heap[i]).val
    /\ Serialized => Len(last.out) = NowTotal

\* C5 as claimed: after serialize() of a schema with area_length,
\* area['area_length'] * 8 = size_total().
AreaLengthClaimed ==
    (Serialized /\ HasAreaLength) =>
        GetItem(names, heap, Me, "area_length").val.v[1] * 8 = NowTotal

\* C5 as amended: after serialize() of a schema with area_length,
\* area['area_length'] = size_total(): the accessor already multiplies the
\* stored count of 8-byte units by 8.
AreaLengthConsistent ==
    (Serialized /\ HasAreaLength) =>
        /\ GetItem(names, heap, Me, "area_length").val = Scalar(NowTotal)
        /\ _get(names, heap, Me, "area_length").val.v[1] * 8 = NowTotal

\* serialize() replaced the area_length the caller had set
AreaLengthWitness ==
    /\ Serialized /\ HasAreaLength
    /\ last.d[IndexOf(names, "area_length")] = Scalar(16)
    /\ NowTotal = 8

\* what an area x shows over the Field instances h: to_dict, the format
\* version, and serialize
View(h, x) ==
    <<to_dict(names, h, x), _get_format_version(x),
      serialize(names, h, x).ok, serialize(names, h, x).val>>

\* C6: a set, update or deserialize on one area leaves what every other
\* area of the class returns from get, to_dict and serialize as it was.
FieldOwnership ==
    [][\A a \in live, o \in live :
          (a # o /\ last'.area = a /\ last'.name \in {"set", "update", "deserialize"})
              => \E h \in {heap'}, x \in {areas'[o]} : View(h, x) = View(heap, areas[o])]_vars

\* C7: deserialize raises the padding-or-checksum error whenever prologue
\* and fields decode and the bytes after them are not the epilogue of the
\* bytes they took, cut-short epilogues and buffers ending with the last
\* field included.
ChecksumRejection ==
    (Deserialized /\ Walk(last.inp).ok
     /\ Take(Following(last.inp), Len(_epilogue(Consumed(last.inp))))
            # _epilogue(Consumed(last.inp)))
        => (~last.ok /\ last.err = "RuntimeError")

\* a buffer that ends with its last field was rejected, and so was one
\* whose epilogue lacks bytes
ChecksumRejectionWitness ==
    /\ Deserialized /\ Len(heap) > 0
    /\ Walk(last.inp).ok
    /\ Following(last.inp) = <<>>
    /\ last.err = "RuntimeError"

\* C8: deserialize of serialize() + t returns t, having consumed exactly
\* size_total() bytes.
RemainderContract ==
    (Deserialized /\ last.rt) =>
        /\ last.ok
        /\ last.out = last.tail
        /\ Len(last.inp) - Len(last.out) = NowTotal

\* C9: the high nibble of byte 0 of serialize() is 0 and the low nibble is
\* area['format_version'].
ReservedNibble ==
    Serialized =>
        /\ last.out[1] \div 16 = 0
        /\ Scalar(last.out[1] % 16) = GetItem(names, heap, Me, "format_version").val

\* C10 as claimed: serialize() right after an accepted deserialize(b)
\* returns the part of b that was consumed, byte for byte.
ByteRoundTripClaimed ==
    (last.name = "serialize" /\ last.follows) => (last.ok /\ last.out = last.prefix)

\* index in the serialized bytes of the area_length byte
AreaLengthAt ==
    1 + Len(JoinFields(heap, SubSeq(Me.dict, 1, IndexOf(names, "area_length") - 1)).val) + 1

\* C10 as amended: serialize() right after an accepted deserialize(b)
\* returns the part of b that was consumed, byte for byte, string headers
\* included, except that the area_length byte holds size_total() / 8 and
\* the checksum byte follows it; when b's area_length already is
\* size_total() / 8, or the schema has none, the bytes are the same.
ByteRoundTrip ==
    (last.name = "serialize" /\ last.follows) =>
        /\ last.ok
        /\ Len(last.out) = Len(last.prefix)
        /\ \A i \in 1..Len(last.out) :
              last.out[i] # last.prefix[i] =>
                  /\ HasAreaLength
                  /\ i \in {AreaLengthAt, Len(last.out)}
                  /\ last.prefix[AreaLengthAt] * 8 # NowTotal
        /\ (HasAreaLength => last.out[AreaLengthAt] * 8 = NowTotal)

\* bytes with a string header of another encoding than the field had came
\* back as they were, area_length included
ByteRoundTripWitness ==
    /\ last.name = "serialize" /\ last.follows
    /\ last.out = last.prefix
    /\ \E i \in 1..Len(heap) :
          heap[i].kind = "string" /\ heap[i].format # _schema[i].field.format
                                  /\ Len(heap[i].value) > 0

====
